---- MODULE Spec2Model ----
(***************************************************************************)
(* FB Page -> Discord watcher: one run of main() loads the watermark from  *)
(* state.json, fetches the newest page of the feed, sends the posts that   *)
(* are newer than the watermark to the Discord webhook (oldest first) and  *)
(* stores the id of the newest fetched post.                               *)
(*                                                                         *)
(* Two variants of the program exist: src/watcher.js (CommonJS, uploads    *)
(* the image as an attachment) and src/unnamed/part_000 (ES module, passes *)
(* the image URL).  The variable `variant` selects the one that runs.      *)
(*                                                                         *)
(* Post ids are modelled as the numbers 1, 2, 3, ... in order of           *)
(* publication (a larger id is a newer post); the program itself only      *)
(* compares ids for equality.  NoId stands for null.                       *)
(***************************************************************************)
EXTENDS Integers, Sequences, FiniteSets, TLC

\* ---------------------------------------------------------------- bounds
MaxId == 4          \* posts ever published on the page
MaxRuns == 3        \* runs of main() in one behaviour
PostsLimit == 3     \* POSTS_LIMIT of the modelled deployment (page size)

NoId == 0
Ids == 1..MaxId
Variants == {"watcher", "part_000"}
Runs == {1, 2}      \* process slots; SeqRuns is the slot of the scheduler
SeqRuns == {1}

VARIABLES
    variant,     \* which source file is deployed
    feed,        \* the page's posts on the server, newest first
    nextId,      \* id of the next post to be published
    stateFile,   \* content of state.json
    run,         \* run[r]: the local state of process r executing main()
    runs,        \* number of runs started
    submitted,   \* ids of the posts POSTed to the webhook, all runs
    resent,      \* some post POSTed by one run was POSTed again by a later run
    everAborted, \* some run failed after it had begun to dispatch posts
    everMissed,  \* some run did not find its watermark in the fetched page
    io           \* argument and result of one call of a function of the program

vars == <<variant, feed, nextId, stateFile, run, runs, submitted, resent,
          everAborted, everMissed, io>>

\* ------------------------------------------------------------ JS values
\* A parsed JSON value as far as main() looks at it: null, a primitive
\* (number, string, boolean), or an object with an optional last_post_id.
JsNull == [t |-> "null", has |-> FALSE, lpi |-> NoId]
JsPrim == [t |-> "prim", has |-> FALSE, lpi |-> NoId]
JsObj(has, id) == [t |-> "object", has |-> has, lpi |-> id]

\* Content of state.json: missing, not JSON, or the JSON text of a value.
FileMissing == [kind |-> "missing", t |-> "none", has |-> FALSE, lpi |-> NoId]
FileGarbage == [kind |-> "garbage", t |-> "none", has |-> FALSE, lpi |-> NoId]

\* JSON.stringify(state, null, 2): an undefined property is left out.
JSONstringify(v) ==
    [kind |-> "json", t |-> v.t, has |-> v.has, lpi |-> IF v.has THEN v.lpi ELSE NoId]

\* JSON.parse(text); Threw when the text is not JSON.
Threw == [t |-> "threw", has |-> FALSE, lpi |-> NoId]
JSONparse(f) ==
    IF f.kind = "json" THEN [t |-> f.t, has |-> f.has, lpi |-> f.lpi] ELSE Threw

loadState_Fresh(f) == JsObj(TRUE, NoId)

loadState(f) ==
    LET v == JSONparse(f)
    IN  IF f.kind = "missing" \/ v = Threw THEN JsObj(TRUE, NoId) ELSE v

saveState(state) == JSONstringify(state)

\* state.last_post_id as read by main(); NoId for null and undefined.
LastPostId(state) == IF state.t = "object" /\ state.has THEN state.lpi ELSE NoId

\* ---------------------------------------------------------------- posts
NoCall == [fn |-> "none"]
NoImage == ""
Post(id, pic, att, sub) ==
    [id |-> id, full_picture |-> pic, att_src |-> att, sub_src |-> sub]

pickImageFromPost_AttachmentFirst(post) ==
    IF post.att_src # NoImage THEN post.att_src
    ELSE IF post.full_picture # NoImage THEN post.full_picture
    ELSE IF post.sub_src # NoImage THEN post.sub_src
    ELSE NoImage

pickImageFromPost(post) ==
    IF post.full_picture # NoImage THEN post.full_picture
    ELSE IF post.att_src # NoImage THEN post.att_src
    ELSE IF post.sub_src # NoImage THEN post.sub_src
    ELSE NoImage

\* The shapes of the posts published in the feed of the main specification.
FeedShapes == { <<NoImage, NoImage, NoImage>>, <<"pic", "att", NoImage>> }

Min(a, b) == IF a < b THEN a ELSE b

\* GET /posts?limit=POSTS_LIMIT: the newest PostsLimit posts, newest first.
Page(f) == SubSeq(f, 1, Min(PostsLimit, Len(f)))

SeqIds(s) == [i \in 1..Len(s) |-> s[i].id]
Occurs(id, posts) == \E i \in 1..Len(posts) : posts[i].id = id

\* newPosts.reverse()
Reverse_None(s) == s

Reverse(s) == [i \in 1..Len(s) |-> s[Len(s) + 1 - i]]

\* for (const p of posts) { if (p.id === state.last_post_id) break; newPosts.push(p); }
RECURSIVE Collect(_, _, _)
Collect(posts, last, i) ==
    IF i > Len(posts) THEN <<>>
    ELSE IF posts[i].id = last THEN <<>>
    ELSE <<posts[i]>> \o Collect(posts, last, i + 1)

CollectNew_All(posts, last) == posts

CollectNew_NoneIfAbsent(posts, last) ==
    IF Occurs(last, posts) THEN Collect(posts, last, 1) ELSE <<>>

CollectNew(posts, last) == Collect(posts, last, 1)

\* ------------------------------------------------------- a run of main()
\* pc: "idle"   not started
\*     "fetch"  awaiting fbFetch (the GET of the feed page)
\*     "imgdl"  awaiting fetch(imageUrl) in sendToDiscord (watcher.js)
\*     "upload" awaiting the multipart POST to the webhook (watcher.js)
\*     "post"   awaiting the JSON POST to the webhook
\*     "done"   main() returned;  "failed"  main() threw, process.exit(1)
\* env, resp, loaded, file0, dispatched, posted, answers, wrote and net record
\* what the run was given and what it did; the program does not read them.
\* prev records what the run before this one fetched and delivered
\* (SpecCrash only).
AllSet == [page |-> TRUE, token |-> TRUE, hook |-> TRUE]
NoResponse == [ok |-> TRUE, body |-> "none"]
NoPrev == [page |-> <<>>, sent |-> {}, ok |-> FALSE]

IdleRun ==
    [pc |-> "idle", outcome |-> "none", env |-> AllSet, resp |-> NoResponse,
     state |-> JsNull, loaded |-> NoId, file0 |-> FileMissing,
     posts |-> <<>>, newPosts |-> <<>>, idx |-> 0,
     dispatched |-> <<>>, posted |-> <<>>, answers |-> <<>>,
     wrote |-> 0, net |-> 0, prev |-> NoPrev]

Terminal == {"idle", "done", "failed"}

\* The process environment: which of the three required values are set
\* (all of them, or all but one).
Envs ==
    {e \in [page : BOOLEAN, token : BOOLEAN, hook : BOOLEAN] :
        Cardinality({k \in {"page", "token", "hook"} : ~e[k]}) <= 1}

\* requireEnv(name, value): TRUE when it does not throw.
requireEnv(value) == value

\* The three calls at the top of main().
ConfigValid_NoHook(env) == requireEnv(env.page) /\ requireEnv(env.token)

ConfigValid(env) ==
    requireEnv(env.page) /\ requireEnv(env.token) /\ requireEnv(env.hook)

Fail(rn, why) == [rn EXCEPT !.pc = "failed", !.outcome = why]
Finish(rn, how) == [rn EXCEPT !.pc = "done", !.outcome = how]

\* state.last_post_id = id; saveState(state)
Persist(rn, id) ==
    [rn EXCEPT !.state = [@ EXCEPT !.has = TRUE, !.lpi = id],
               !.wrote = @ + 1]

\* fetch(DISCORD_WEBHOOK_URL, {method: "POST", ...}) is issued for post id;
\* mode is "multipart" (image attached) or "json".
IssuePost(rn, id, mode) ==
    [rn EXCEPT !.pc = IF mode = "multipart" THEN "upload" ELSE "post",
               !.posted = Append(@, [id |-> id, mode |-> mode]),
               !.net = @ + 1]

\* The webhook answered the outstanding POST.
Answered(rn, ok) == [rn EXCEPT !.answers = Append(@, ok)]

\* sendToDiscord(p) up to its first await.
sendToDiscord(v, rn) ==
    LET p == rn.newPosts[rn.idx]
        d == [rn EXCEPT !.dispatched = Append(@, p.id)]
    IN  IF v = "watcher" /\ pickImageFromPost(p) # NoImage
        THEN [d EXCEPT !.pc = "imgdl", !.net = @ + 1]
        ELSE IssuePost(d, p.id, "json")

\* The id main() stores after the deliver loop.
NewWatermark_Oldest(v, rn) == rn.posts[Len(rn.posts)].id

NewWatermark(v, rn) ==
    IF v = "watcher" THEN rn.posts[1].id
    ELSE rn.newPosts[Len(rn.newPosts)].id

\* sendToDiscord returned: next iteration of the loop, or the final save.
AfterSend(v, rn) ==
    IF rn.idx < Len(rn.newPosts)
    THEN sendToDiscord(v, [rn EXCEPT !.idx = @ + 1])
    ELSE Finish(Persist(rn, NewWatermark(v, rn)), "Persist")

\* The webhook answered the JSON POST with a non-success status:
\* sendToDiscord throws, main() rejects.
AfterPostFailed_Continue(v, rn) == AfterSend(v, rn)

AfterPostFailed(v, rn) == Fail(rn, "DeliveryError")

\* if (!state.last_post_id)
IsFirstRun_Never(state) == FALSE

IsFirstRun(state) == LastPostId(state) = NoId

\* First run: state.last_post_id = posts[0].id; saveState(state).  On a
\* primitive the assignment is ignored in sloppy mode (watcher.js) and
\* throws a TypeError in strict mode (part_000 is an ES module).
Initialize(v, rn) ==
    IF rn.state.t = "object"
    THEN Finish(Persist(rn, rn.posts[1].id), "Initialize")
    ELSE IF v = "watcher"
         THEN Finish([rn EXCEPT !.wrote = @ + 1], "Initialize")
         ELSE Fail(rn, "TypeError")

\* if (posts.length === 0) { console.log("No posts found."); return; }
EarlyExit_Saves(rn) == Finish([rn EXCEPT !.wrote = @ + 1], "EarlyExit")

EarlyExit(rn) == Finish(rn, "EarlyExit")

\* main() from the return of fbFetch to its next await or its end.
AfterFetch(v, rn0, data) ==
    LET rn == [rn0 EXCEPT !.posts = data]
        newPosts == CollectNew(data, rn.state.lpi)
    IN  IF rn.state.t = "null" THEN Fail(rn, "TypeError")
        ELSE IF Len(data) = 0 THEN EarlyExit(rn)
        ELSE IF IsFirstRun(rn.state) THEN Initialize(v, rn)
        ELSE IF Len(newPosts) = 0 THEN Finish(rn, "NoNew")
        ELSE sendToDiscord(v, [rn EXCEPT !.newPosts = Reverse(newPosts), !.idx = 1])

\* fbFetch: the responses of the Graph API, an HTTP status (ok or not) and a
\* body: not JSON, JSON with an error object, JSON with a data array, JSON
\* with neither.
FetchResponses ==
    {[ok |-> TRUE, body |-> "data"], [ok |-> TRUE, body |-> "nodata"],
     [ok |-> TRUE, body |-> "error"], [ok |-> TRUE, body |-> "nonjson"],
     [ok |-> FALSE, body |-> "data"]}

fbFetchOk_NoErrorCheck(resp) == resp.body # "nonjson" /\ resp.ok

fbFetchOk(resp) ==
    /\ resp.body # "nonjson"
    /\ ~(~resp.ok \/ resp.body = "error")

\* postsResp.data || []
ResponseData(resp, f) == IF resp.body = "data" THEN Page(f) ELSE <<>>

\* ------------------------------------------------------------- bookkeeping
\* The id POSTed to the webhook by the step from rn to rn2, if any.
Issued(rn, rn2) ==
    IF Len(rn2.posted) > Len(rn.posted) THEN {rn2.posted[Len(rn2.posted)].id} ELSE {}

Written(rn, rn2) == IF rn2.wrote > rn.wrote THEN saveState(rn2.state) ELSE stateFile

Missed(rn2) ==
    /\ rn2.loaded # NoId
    /\ Len(rn2.posts) > 0
    /\ ~Occurs(rn2.loaded, rn2.posts)

\* The ids the run has POSTed to the webhook.
PostedIds(rn) == {rn.posted[i].id : i \in 1..Len(rn.posted)}

\* The cross-run history (submitted, resent, everAborted, everMissed) of the
\* step of a run from rn to rn2.  It is kept by SpecHistory only.
History(log, rn, rn2) ==
    IF log
    THEN /\ submitted' = submitted \cup Issued(rn, rn2)
         /\ resent' = (resent \/ Issued(rn, rn2) \cap (submitted \ PostedIds(rn)) # {})
         /\ everAborted' = (everAborted \/ (rn2.pc = "failed" /\ rn2.dispatched # <<>>))
         /\ everMissed' = (everMissed \/ Missed(rn2))
    ELSE UNCHANGED <<submitted, resent, everAborted, everMissed>>

\* ----------------------------------------------------------------- actions
InitFiles ==
    {FileMissing, FileGarbage, JSONstringify(JsNull), JSONstringify(JsPrim),
     JSONstringify(JsObj(FALSE, NoId)), JSONstringify(JsObj(TRUE, NoId))}

Init ==
    /\ variant \in Variants
    /\ feed = <<>>
    /\ nextId = 1
    /\ stateFile \in InitFiles
    /\ run = [r \in Runs |-> IdleRun]
    /\ runs = 0
    /\ submitted = {}
    /\ resent = FALSE
    /\ everAborted = FALSE
    /\ everMissed = FALSE
    /\ io = NoCall

Quiet == \A r \in Runs : run[r].pc \in Terminal

\* The program observes the feed only through the response to its GET, so
\* the changes of the feed since the previous response are taken while a
\* GET is outstanding.
Fetching == \E r \in Runs : run[r].pc = "fetch"

\* The page publishes a post.
AddPost ==
    /\ Fetching
    /\ nextId <= MaxId
    /\ \E sh \in FeedShapes :
         feed' = <<Post(nextId, sh[1], sh[2], sh[3])>> \o feed
    /\ nextId' = nextId + 1
    /\ UNCHANGED <<io, variant, stateFile, run, runs, submitted, resent,
                   everAborted, everMissed>>

\* The page deletes a post.
RemovePost ==
    /\ Fetching
    /\ \E i \in 1..Len(feed) :
         feed' = SubSeq(feed, 1, i - 1) \o SubSeq(feed, i + 1, Len(feed))
    /\ UNCHANGED <<io, variant, nextId, stateFile, run, runs, submitted, resent,
                   everAborted, everMissed>>

\* The ids of the posts for which the webhook answered with success.
Delivered(rn) == {rn.posted[i].id : i \in {j \in 1..Len(rn.answers) : rn.answers[j]}}

\* What the next run remembers of the run rn that ended before it: the page
\* and the deliveries of a run that failed after deliveries and before
\* saving, or the page of a run that ended in success on a feed with posts.
Summary(rn) ==
    IF rn.pc = "failed" /\ rn.wrote = 0 /\ Delivered(rn) # {}
    THEN [page |-> SeqIds(rn.posts), sent |-> Delivered(rn), ok |-> FALSE]
    ELSE IF rn.outcome \in {"Initialize", "Persist"}
    THEN [page |-> SeqIds(rn.posts), sent |-> {}, ok |-> TRUE]
    ELSE NoPrev

\* main() is called: requireEnv x3, loadState, fbFetch issues its GET.
StartRun(r, keep) ==
    /\ Quiet
    /\ runs < MaxRuns
    /\ runs' = runs + 1
    /\ \E env \in Envs :
         LET st == loadState(stateFile)
             rn == [IdleRun EXCEPT !.file0 = stateFile, !.env = env,
                                   !.prev = IF keep THEN Summary(run[r]) ELSE NoPrev]
         IN  run' = [run EXCEPT ![r] =
                 IF ConfigValid(env)
                 THEN [rn EXCEPT !.pc = "fetch", !.state = st,
                                 !.loaded = LastPostId(st), !.net = 1]
                 ELSE Fail(rn, "ConfigError")]
    /\ UNCHANGED <<io, variant, feed, nextId, stateFile, submitted, resent,
                   everAborted, everMissed>>

Start(r) == StartRun(r, FALSE)

\* The process is killed while it awaits a response in the deliver loop.
Crash(r) ==
    /\ run[r].pc \in {"imgdl", "upload", "post"}
    /\ run' = [run EXCEPT ![r] = Fail(@, "Crashed")]
    /\ UNCHANGED <<io, variant, feed, nextId, stateFile, runs, submitted, resent,
                   everAborted, everMissed>>

\* The GET of the feed page returns.
FetchReturn(r, log) ==
    /\ run[r].pc = "fetch"
    /\ \E resp \in FetchResponses :
         LET rn == [run[r] EXCEPT !.resp = resp]
             rn2 == IF fbFetchOk(resp)
                    THEN AfterFetch(variant, rn, ResponseData(resp, feed))
                    ELSE Fail(rn, "FetchError")
         IN  /\ run' = [run EXCEPT ![r] = rn2]
             /\ stateFile' = Written(rn, rn2)
             /\ History(log, rn, rn2)
    /\ UNCHANGED <<io, variant, feed, nextId, runs>>

\* watcher.js: fetch(imageUrl) returns.  "ok": the image is uploaded with a
\* multipart POST; otherwise (status not ok, or a throw caught at line 118)
\* the plain embed is POSTed.
ImageReturn(r, log) ==
    /\ run[r].pc = "imgdl"
    /\ \E res \in {"ok", "notok", "throw"} :
         LET rn == run[r]
             id == rn.newPosts[rn.idx].id
             rn2 == IssuePost(rn, id, IF res = "ok" THEN "multipart" ELSE "json")
         IN  /\ run' = [run EXCEPT ![r] = rn2]
             /\ History(log, rn, rn2)
    /\ UNCHANGED <<io, variant, feed, nextId, stateFile, runs>>

\* watcher.js: the multipart POST returns.  A non-success status throws
\* inside the try block, is caught at line 118, and the plain embed is POSTed.
UploadReturn(r, log) ==
    /\ run[r].pc = "upload"
    /\ \E ok \in BOOLEAN :
         LET rn == Answered(run[r], ok)
             id == rn.newPosts[rn.idx].id
             rn2 == IF ok THEN AfterSend(variant, rn)
                    ELSE IssuePost(rn, id, "json")
         IN  /\ run' = [run EXCEPT ![r] = rn2]
             /\ stateFile' = Written(rn, rn2)
             /\ History(log, rn, rn2)
    /\ UNCHANGED <<io, variant, feed, nextId, runs>>

\* The JSON POST returns.
PostReturn(r, log) ==
    /\ run[r].pc = "post"
    /\ \E ok \in BOOLEAN :
         LET rn == Answered(run[r], ok)
             rn2 == IF ok THEN AfterSend(variant, rn)
                    ELSE AfterPostFailed(variant, rn)
         IN  /\ run' = [run EXCEPT ![r] = rn2]
             /\ stateFile' = Written(rn, rn2)
             /\ History(log, rn, rn2)
    /\ UNCHANGED <<io, variant, feed, nextId, runs>>

Next ==
    \/ AddPost
    \/ RemovePost
    \/ \E r \in SeqRuns : Start(r)
    \/ \E r \in SeqRuns : FetchReturn(r, FALSE)
    \/ \E r \in SeqRuns : ImageReturn(r, FALSE)
    \/ \E r \in SeqRuns : UploadReturn(r, FALSE)
    \/ \E r \in SeqRuns : PostReturn(r, FALSE)

\* Non-overlapping runs of main(), one after the other.
Spec == Init /\ [][Next]_vars

NextHistory ==
    \/ AddPost
    \/ RemovePost
    \/ \E r \in SeqRuns : Start(r)
    \/ \E r \in SeqRuns : FetchReturn(r, TRUE)
    \/ \E r \in SeqRuns : ImageReturn(r, TRUE)
    \/ \E r \in SeqRuns : UploadReturn(r, TRUE)
    \/ \E r \in SeqRuns : PostReturn(r, TRUE)

\* The same runs, with the history of the webhook POSTs of all runs.
SpecHistory == Init /\ [][NextHistory]_vars

NextCrash ==
    \/ AddPost
    \/ RemovePost
    \/ \E r \in SeqRuns : StartRun(r, TRUE)
    \/ \E r \in SeqRuns : FetchReturn(r, FALSE)
    \/ \E r \in SeqRuns : ImageReturn(r, FALSE)
    \/ \E r \in SeqRuns : UploadReturn(r, FALSE)
    \/ \E r \in SeqRuns : PostReturn(r, FALSE)
    \/ \E r \in SeqRuns : Crash(r)

\* The same runs, each of which may be killed in its deliver loop; a run
\* remembers what the failed run before it had delivered.
SpecCrash == Init /\ [][NextCrash]_vars

\* Nothing in main() looks for another process: a run may start whenever its
\* process slot is free.
MayStart_Locked(r) == Quiet

MayStart(r) == run[r].pc \in Terminal \cup {"idle"}

\* main() is called while another process may be inside main(); every
\* process of Runs is started once.
StartOverlap(r) ==
    /\ MayStart(r)
    /\ runs < Cardinality(Runs)
    /\ runs' = runs + 1
    /\ \E env \in Envs :
         LET st == loadState(stateFile)
             rn == [IdleRun EXCEPT !.file0 = stateFile, !.env = env]
         IN  run' = [run EXCEPT ![r] =
                 IF ConfigValid(env)
                 THEN [rn EXCEPT !.pc = "fetch", !.state = st,
                                 !.loaded = LastPostId(st), !.net = 1]
                 ELSE Fail(rn, "ConfigError")]
    /\ UNCHANGED <<io, variant, feed, nextId, stateFile, submitted, resent,
                   everAborted, everMissed>>

\* The state a first run leaves behind: it initialised the watermark on a
\* feed of one post.
InitOverlap ==
    /\ variant \in Variants
    /\ \E sh \in FeedShapes : feed = <<Post(1, sh[1], sh[2], sh[3])>>
    /\ nextId = 2
    /\ stateFile = saveState(JsObj(TRUE, 1))
    /\ run = [r \in Runs |-> IdleRun]
    /\ runs = 0
    /\ submitted = {}
    /\ resent = FALSE
    /\ everAborted = FALSE
    /\ everMissed = FALSE
    /\ io = NoCall

NextOverlap ==
    \/ AddPost
    \/ \E r \in Runs : StartOverlap(r)
    \/ \E r \in Runs : FetchReturn(r, FALSE)
    \/ \E r \in Runs : ImageReturn(r, FALSE)
    \/ \E r \in Runs : UploadReturn(r, FALSE)
    \/ \E r \in Runs : PostReturn(r, FALSE)

\* Two processes whose runs may overlap (two cron invocations); the page
\* publishes posts and deletes none while they are under way.
SpecOverlap == InitOverlap /\ [][NextOverlap]_vars

TypeOK ==
    /\ variant \in Variants
    /\ nextId \in 1..(MaxId + 1)
    /\ runs \in 0..MaxRuns
    /\ \A r \in Runs :
         /\ run[r].pc \in {"idle", "fetch", "imgdl", "upload", "post", "done", "failed"}
         /\ Len(run[r].answers) <= Len(run[r].posted)
    /\ resent \in BOOLEAN

\* ================================================================== claims
IsPrefix(s, t) == Len(s) <= Len(t) /\ \A i \in 1..Len(s) : s[i] = t[i]

\* Index of the first occurrence of id in posts.
FirstIndex(id, posts) ==
    CHOOSE k \in 1..Len(posts) :
        posts[k].id = id /\ \A j \in 1..(k - 1) : posts[j].id # id

\* The watermark persisted in state.json, as the next run will load it.
Watermark(f) == LastPostId(loadState(f))

\* The ids of the first n posts of a newest-first page, oldest first.
OldestFirst(posts, n) == [i \in 1..n |-> posts[n + 1 - i].id]

\* The loaded state of the run is an object without a watermark.
LoadedNull(rn) == loadState(rn.file0).t = "object" /\ rn.loaded = NoId

\* A webhook POST of the run got a non-success answer.
Rejected(rn, i) == i <= Len(rn.answers) /\ ~rn.answers[i]

\* sendToDiscord threw: its JSON POST got a non-success answer.
DispatchFailed(rn) ==
    \E i \in 1..Len(rn.answers) : Rejected(rn, i) /\ rn.posted[i].mode = "json"

C2_FirstRunNoFlood ==
    \A r \in Runs :
        LET rn == run[r]
        IN  (LoadedNull(rn) /\ Len(rn.posts) > 0) =>
                /\ rn.pc = "done"
                /\ rn.posted = <<>> /\ rn.dispatched = <<>>
                /\ rn.wrote = 1
                /\ Watermark(stateFile) = rn.posts[1].id

C2_Witness ==
    \E r \in Runs :
        /\ LoadedNull(run[r]) /\ Len(run[r].posts) >= 2
        /\ run[r].pc = "done"

\* ---- C3
\* C3: when the loaded watermark occurs in the fetched page, the posts
\* dispatched so far are a prefix of the posts before its first occurrence
\* taken oldest-first, and all of them once the run is done.
C3_NewBeforeWatermark ==
    \A r \in Runs :
        LET rn == run[r]
        IN  (rn.loaded # NoId /\ Occurs(rn.loaded, rn.posts)) =>
                LET k == FirstIndex(rn.loaded, rn.posts)
                    expected == OldestFirst(rn.posts, k - 1)
                IN  /\ IsPrefix(rn.dispatched, expected)
                    /\ rn.pc = "done" => rn.dispatched = expected

C3_Witness ==
    \E r \in Runs :
        /\ run[r].loaded # NoId /\ Occurs(run[r].loaded, run[r].posts)
        /\ run[r].pc = "done"
        /\ Len(run[r].dispatched) >= 2

\* ---- C4
\* C4: when the loaded watermark does not occur in the non-empty fetched
\* page, the posts dispatched so far are a prefix of the whole page taken
\* oldest-first, and the whole page once the run is done.
C4_AllNewWhenAbsent ==
    \A r \in Runs :
        LET rn == run[r]
        IN  (rn.loaded # NoId /\ Len(rn.posts) > 0 /\ ~Occurs(rn.loaded, rn.posts)) =>
                LET expected == OldestFirst(rn.posts, Len(rn.posts))
                IN  /\ IsPrefix(rn.dispatched, expected)
                    /\ Len(rn.dispatched) >= 1
                    /\ rn.pc = "done" => rn.dispatched = expected

C4_Witness ==
    \E r \in Runs :
        /\ run[r].loaded # NoId /\ ~Occurs(run[r].loaded, run[r].posts)
        /\ run[r].pc = "done"
        /\ Len(run[r].dispatched) >= 2

\* ---- C5
\* A step of run r writes state.json over a watermark that was set.
Rewrites(r) == run'[r].wrote = run[r].wrote + 1 /\ Watermark(stateFile) # NoId

\* C5 (as stated): every write over a set watermark stores an id of the page
\* the run fetched, and never the id of an older post than before.
C5_NeverRolledBack ==
    [][\A r \in Runs : Rewrites(r) =>
          /\ Occurs(Watermark(stateFile'), run'[r].posts)
          /\ Watermark(stateFile') >= Watermark(stateFile)]_vars

\* C5 (amended): every write over a set watermark stores an id of the page
\* the run fetched; it stores an older post than before only when the post
\* it pointed to is no longer in the feed.
C5_RolledBackOnlyIfDeleted ==
    [][\A r \in Runs : Rewrites(r) =>
          /\ Occurs(Watermark(stateFile'), run'[r].posts)
          /\ Occurs(Watermark(stateFile), feed) =>
                 Watermark(stateFile') >= Watermark(stateFile)]_vars

\* A run advanced the watermark past a post that is still in the feed but
\* no longer in the fetched page.
C5_Witness ==
    \E r \in Runs :
        /\ run[r].outcome = "Persist"
        /\ Occurs(run[r].loaded, feed) /\ ~Occurs(run[r].loaded, run[r].posts)
        /\ Watermark(stateFile) > run[r].loaded

\* ---- C6
\* C6: when a dispatch has failed the run is failed and state.json is what
\* it was when the run started; and a run that wrote state.json over a set
\* watermark has a success answer for every post it selected.
C6_FailedDeliveryKeepsWatermark ==
    \A r \in Runs :
        LET rn == run[r]
        IN  /\ DispatchFailed(rn) =>
                /\ rn.pc = "failed"
                /\ rn.wrote = 0
                /\ stateFile = rn.file0
            /\ (rn.wrote > 0 /\ rn.loaded # NoId) =>
                \A j \in 1..Len(rn.newPosts) :
                    \E i \in 1..Len(rn.answers) :
                        rn.posted[i].id = rn.newPosts[j].id /\ rn.answers[i]

\* The second post of a batch was rejected after the first was accepted.
C6_Witness ==
    \E r \in Runs :
        /\ DispatchFailed(run[r])
        /\ \E i \in 1..Len(run[r].answers) : run[r].answers[i]

\* ---- C7
\* C7: when the feed responds with a non-success status, a body that is
\* not JSON or an error object, the run is failed, has issued no webhook
\* POST and state.json is what it was when the run started.
C7_FetchFailureAborts ==
    \A r \in Runs :
        LET rn == run[r]
        IN  (~rn.resp.ok \/ rn.resp.body \in {"nonjson", "error"}) =>
                /\ rn.pc = "failed"
                /\ rn.posted = <<>>
                /\ rn.wrote = 0
                /\ stateFile = rn.file0

\* The fetch failed in a run that had a watermark and posts to deliver.
C7_Witness ==
    \E r \in Runs :
        /\ run[r].resp.body = "error"
        /\ run[r].loaded # NoId
        /\ Len(feed) > 0 /\ feed[1].id # run[r].loaded

\* ---- C8
\* C8: in a run no post id is POSTed to the webhook twice, and no POST
\* follows a POST that got a non-success answer.
C8_NoRetry ==
    \A r \in Runs :
        LET rn == run[r]
        IN  /\ \A i, j \in 1..Len(rn.posted) :
                rn.posted[i].id = rn.posted[j].id => i = j
            /\ \A i \in 1..Len(rn.posted) : Rejected(rn, i) => Len(rn.posted) = i

\* ---- C9
\* C9: a run whose fetch succeeded with an empty sequence has ended, has
\* issued no webhook POST and has not written state.json.
C9_EmptyFeedNoEffect ==
    \A r \in Runs :
        LET rn == run[r]
        IN  (rn.resp.ok /\ rn.resp.body \in {"data", "nodata"} /\ Len(rn.posts) = 0) =>
                /\ rn.pc \in {"done", "failed"}
                /\ rn.posted = <<>>
                /\ rn.wrote = 0
                /\ stateFile = rn.file0

\* An empty page was fetched by a run that had loaded a watermark.
C9_Witness ==
    \E r \in Runs :
        /\ run[r].resp = [ok |-> TRUE, body |-> "data"]
        /\ Len(run[r].posts) = 0
        /\ run[r].loaded # NoId
        /\ run[r].pc = "done"

\* ---- C10
\* C10: a run started without page id, access token or webhook URL is
\* failed, has made no network call and has not written state.json.
C10_ConfigCheckedFirst ==
    \A r \in Runs :
        LET rn == run[r]
        IN  (~rn.env.page \/ ~rn.env.token \/ ~rn.env.hook) =>
                /\ rn.pc = "failed"
                /\ rn.net = 0
                /\ rn.posted = <<>>
                /\ rn.wrote = 0
                /\ stateFile = rn.file0

\* The webhook URL is missing in a run that had a watermark and a new post.
C10_Witness ==
    \E r \in Runs :
        /\ ~run[r].env.hook
        /\ Watermark(run[r].file0) # NoId
        /\ Len(feed) > 0 /\ feed[1].id # Watermark(run[r].file0)

\* ---- C11
\* state.json does not hold an object with a last_post_id.
Malformed(f) == f.kind # "json" \/ f.t # "object" \/ ~f.has

\* C11: a run that started on a malformed state.json does not end with a
\* TypeError, and once it has fetched a non-empty page it is done, has
\* issued no webhook POST and state.json holds the id of the newest post.
C11_MalformedStateRecovered ==
    \A r \in Runs :
        LET rn == run[r]
        IN  (rn.pc # "idle" /\ Malformed(rn.file0)) =>
                /\ rn.outcome # "TypeError"
                /\ Len(rn.posts) > 0 =>
                       /\ rn.pc = "done"
                       /\ rn.posted = <<>>
                       /\ Watermark(stateFile) = rn.posts[1].id

\* ---- C12
\* The webhook answered with success for post id in this run.
Acked(rn, id) == \E i \in 1..Len(rn.answers) : rn.answers[i] /\ rn.posted[i].id = id

\* The ids of the posts the run selected for delivery.
Selected(rn) == {rn.newPosts[i].id : i \in 1..Len(rn.newPosts)}

\* C12: a run that moved the watermark from X has a success answer for every
\* post of its page that is newer than X; and a run that fetches the same
\* page as the run before it, which failed or was killed after deliveries
\* and before saving, selects every post that run had delivered.
C12_AtLeastOnce ==
    \A r \in Runs :
        LET rn == run[r]
        IN  /\ (rn.outcome = "Persist" /\ rn.loaded # NoId) =>
                \A i \in 1..Len(rn.posts) :
                    rn.posts[i].id > rn.loaded => Acked(rn, rn.posts[i].id)
            /\ (rn.prev.sent # {} /\ SeqIds(rn.posts) = rn.prev.page) =>
                rn.prev.sent \subseteq Selected(rn)

\* A run killed after one delivery is followed by a run over the same page
\* that delivers the same post again and saves the watermark.
C12_Witness ==
    \E r \in Runs :
        /\ run[r].prev.sent # {} /\ SeqIds(run[r].posts) = run[r].prev.page
        /\ run[r].outcome = "Persist"
        /\ Len(run[r].posts) >= 2
        /\ \E id \in run[r].prev.sent : Acked(run[r], id)

\* ================================================================ texts
\* A string is modelled as a sequence of pieces [c, n]: n characters of the
\* kind c, where "x" is a character that is not whitespace.  Adjacent pieces
\* of a string are of different kinds.  A literal of the program is one piece
\* whose kind is the literal.
MaxPieces == 3
TitleMax == 80
TitleKeep == 77
DescriptionLimit == 3500

Whitespace == {" ", "\n"}
Piece(c, n) == [c |-> c, n |-> n]
Literal(str, n) == <<Piece(str, n)>>
EmptyString == <<>>

RECURSIVE Canon(_)
Canon(s) ==
    IF s = <<>> THEN <<>>
    ELSE LET t == Canon(Tail(s))
         IN  IF s[1].n = 0 THEN t
             ELSE IF t # <<>> /\ t[1].c = s[1].c
                  THEN <<Piece(s[1].c, s[1].n + t[1].n)>> \o Tail(t)
                  ELSE <<s[1]>> \o t

\* a + b
Concat(a, b) == Canon(a \o b)

\* s.length
RECURSIVE StrLen(_)
StrLen(s) == IF s = <<>> THEN 0 ELSE s[1].n + StrLen(Tail(s))

\* s.slice(0, k)
RECURSIVE Slice0(_, _)
Slice0(s, k) ==
    IF s = <<>> \/ k <= 0 THEN <<>>
    ELSE IF s[1].n >= k THEN <<Piece(s[1].c, k)>>
    ELSE <<s[1]>> \o Slice0(Tail(s), k - s[1].n)

\* s.trim()
RECURSIVE TrimStart(_)
TrimStart(s) ==
    IF s # <<>> /\ s[1].c \in Whitespace THEN TrimStart(Tail(s)) ELSE s

RECURSIVE TrimEnd(_)
TrimEnd(s) ==
    IF s # <<>> /\ s[Len(s)].c \in Whitespace
    THEN TrimEnd(SubSeq(s, 1, Len(s) - 1)) ELSE s

Trim(s) == TrimEnd(TrimStart(s))

\* s.replace(/\s+/g, " ")
RECURSIVE CollapseWhitespace(_)
CollapseWhitespace(s) ==
    IF s = <<>> THEN <<>>
    ELSE LET t == CollapseWhitespace(Tail(s))
         IN  IF s[1].c \in Whitespace
             THEN IF t # <<>> /\ t[1].c = " " THEN t ELSE <<Piece(" ", 1)>> \o t
             ELSE <<s[1]>> \o t

\* a || b for strings: the empty string is falsy.
OrElse(a, b) == IF a # EmptyString THEN a ELSE b

\* p.message: absent (undefined) or a string.
Absent == [present |-> FALSE, text |-> EmptyString]
Message(text) == [present |-> TRUE, text |-> text]

cleanText(m) == IF m.present /\ m.text # EmptyString THEN Trim(m.text) ELSE EmptyString

DefaultTitle(v) ==
    IF v = "watcher" THEN Literal("New Facebook Page post", 22)
    ELSE Literal("New Facebook post", 17)

Ellipsis(v) == IF v = "watcher" THEN Literal(".", 3) ELSE Literal("U+2026", 1)

makeTitleFromMessage_NoTruncate(v, msg) ==
    IF msg = EmptyString THEN DefaultTitle(v) ELSE msg

\* watcher.js: makeTitleFromMessage(msg); part_000: the expression in main().
makeTitleFromMessage(v, msg) ==
    IF msg = EmptyString THEN DefaultTitle(v)
    ELSE LET oneLine == IF v = "watcher" THEN Trim(CollapseWhitespace(msg)) ELSE msg
         IN  IF StrLen(oneLine) > TitleMax
             THEN Concat(Slice0(oneLine, TitleKeep), Ellipsis(v))
             ELSE oneLine

\* The description main() hands to sendToDiscord.
DescriptionArg(v, msg) ==
    IF v = "watcher" THEN OrElse(msg, Literal(" ", 1)) ELSE msg

\* The embed sendToDiscord builds from its arguments.
Embed(v, title, description) ==
    IF v = "watcher"
    THEN [title |-> OrElse(title, Literal("New post", 8)),
          description |-> Slice0(OrElse(description, EmptyString), DescriptionLimit)]
    ELSE [title |-> title, description |-> description]

\* ------------------------------------------------ calls of the functions
\* Lengths of the pieces of the messages: sums of them lie on both sides of
\* TitleKeep, TitleMax and DescriptionLimit.
PieceLens == {1, 2, TitleMax - 2, DescriptionLimit - 1}
Pieces == {Piece(c, n) : c \in {"x", " ", "\n"}, n \in PieceLens}

Texts ==
    UNION {{s \in [1..k -> Pieces] : \A i \in 1..(k - 1) : s[i].c # s[i + 1].c}
           : k \in 1..MaxPieces}

Messages == {Absent, Message(EmptyString)} \cup {Message(t) : t \in Texts}

Images == {Post(1, pic, att, sub) :
              pic \in {NoImage, "pic"}, att \in {NoImage, "att"}, sub \in {NoImage, "sub"}}

States == {JsObj(TRUE, id) : id \in Ids \cup {NoId}}

Calls ==
    {[fn |-> "main", message |-> m] : m \in Messages}
    \cup {[fn |-> "pickImageFromPost", post |-> p] : p \in Images}
    \cup {[fn |-> "saveState", state |-> st] : st \in States}

InitPure ==
    /\ variant \in Variants
    /\ feed = <<>>
    /\ nextId = 1
    /\ stateFile = FileMissing
    /\ run = [r \in Runs |-> IdleRun]
    /\ runs = 0
    /\ submitted = {}
    /\ resent = FALSE
    /\ everAborted = FALSE
    /\ everMissed = FALSE
    /\ io \in Calls

\* The body of the deliver loop builds the embed of one post.
Compose ==
    /\ io.fn = "main"
    /\ LET msg == cleanText(io.message)
       IN  io' = [fn |-> "embed", message |-> io.message,
                  embed |-> Embed(variant, makeTitleFromMessage(variant, msg),
                                  DescriptionArg(variant, msg))]
    /\ UNCHANGED <<variant, feed, nextId, stateFile, run, runs, submitted,
                   resent, everAborted, everMissed>>

PickImage ==
    /\ io.fn = "pickImageFromPost"
    /\ io' = [fn |-> "image", post |-> io.post, image |-> pickImageFromPost(io.post)]
    /\ UNCHANGED <<variant, feed, nextId, stateFile, run, runs, submitted,
                   resent, everAborted, everMissed>>

\* saveState(state) followed by loadState().
SaveLoad ==
    /\ io.fn = "saveState"
    /\ stateFile' = saveState(io.state)
    /\ io' = [fn |-> "loadState", state |-> io.state, loaded |-> loadState(stateFile')]
    /\ UNCHANGED <<variant, feed, nextId, run, runs, submitted, resent,
                   everAborted, everMissed>>

NextPure ==
    \/ Compose
    \/ PickImage
    \/ SaveLoad

SpecPure == InitPure /\ [][NextPure]_vars

\* ---- C13
\* C13: the description of every embed built for the webhook has at most
\* DescriptionLimit (3500) characters.
C13_DescriptionBounded ==
    io.fn = "embed" => StrLen(io.embed.description) <= DescriptionLimit

\* ---- C14
\* The message the title is derived from: trimmed, and in watcher.js with
\* every stretch of whitespace replaced by one space.
TitleSource(v, m) ==
    IF v = "watcher" THEN Trim(CollapseWhitespace(cleanText(m))) ELSE cleanText(m)

\* C14 as stated: the title is the default title when the message is absent
\* or blank, the trimmed message when that has at most 80 characters, and the
\* first 77 characters of the trimmed message followed by the ellipsis marker
\* when it is longer.
C14_TitleOfMessage ==
    io.fn = "embed" =>
        LET msg == cleanText(io.message)
        IN  io.embed.title =
                IF msg = EmptyString THEN DefaultTitle(variant)
                ELSE IF StrLen(msg) > TitleMax
                     THEN Concat(Slice0(msg, TitleKeep), Ellipsis(variant))
                     ELSE msg

\* C14 amended: the same derivation, applied to the message after trimming
\* and, in watcher.js, after collapsing each stretch of whitespace into one
\* space; the title never has more than 80 characters.
C14_TitleOfNormalisedMessage ==
    io.fn = "embed" =>
        LET src == TitleSource(variant, io.message)
        IN  /\ io.embed.title =
                   IF cleanText(io.message) = EmptyString THEN DefaultTitle(variant)
                   ELSE IF StrLen(src) > TitleMax
                        THEN Concat(Slice0(src, TitleKeep), Ellipsis(variant))
                        ELSE src
            /\ StrLen(io.embed.title) <= TitleMax

\* watcher.js has built a truncated title from a message whose whitespace it
\* had to collapse.
C14_Witness ==
    /\ io.fn = "embed"
    /\ variant = "watcher"
    /\ TitleSource(variant, io.message) # cleanText(io.message)
    /\ StrLen(TitleSource(variant, io.message)) > TitleMax
    /\ StrLen(io.embed.title) = TitleMax

\* ---- C15
\* C15: pickImageFromPost returns the post's full_picture when it is not
\* empty, else the image of the first attachment when that is not empty, else
\* the image of the first sub-attachment of the first attachment when that is
\* not empty, else no image.
C15_ImagePrecedence ==
    io.fn = "image" =>
        LET p == io.post
        IN  /\ p.full_picture # NoImage => io.image = p.full_picture
            /\ (p.full_picture = NoImage /\ p.att_src # NoImage) =>
                   io.image = p.att_src
            /\ (p.full_picture = NoImage /\ p.att_src = NoImage
                    /\ p.sub_src # NoImage) => io.image = p.sub_src
            /\ (p.full_picture = NoImage /\ p.att_src = NoImage
                    /\ p.sub_src = NoImage) => io.image = NoImage

\* A post with all three images has been resolved to its full_picture.
C15_Witness ==
    /\ io.fn = "image"
    /\ io.post.full_picture # NoImage
    /\ io.post.att_src # NoImage
    /\ io.post.sub_src # NoImage
    /\ io.image = io.post.full_picture

Delivering(rn) == rn.pc \in {"imgdl", "upload", "post"}

\* C17: in either variant the posts a run hands to sendToDiscord are, in
\* this order, the posts of the fetched page before the loaded watermark,
\* oldest first; the id watcher.js stores (posts[0].id) and the id part_000
\* stores (the last of the reversed new posts) are the same; and after a run
\* that dispatched all of them and saved, state.json holds the id of the
\* first fetched post, which is the id of the last post dispatched.
C17_WatermarkIsNewestFetched ==
    \A r \in Runs :
        LET rn == run[r]
        IN  /\ (Delivering(rn) \/ rn.outcome = "Persist") =>
                /\ SeqIds(rn.newPosts) =
                       OldestFirst(rn.posts, Len(Collect(rn.posts, rn.loaded, 1)))
                /\ IsPrefix(rn.dispatched, SeqIds(rn.newPosts))
                /\ NewWatermark("watcher", rn) = NewWatermark("part_000", rn)
            /\ rn.outcome = "Persist" =>
                /\ rn.dispatched = SeqIds(rn.newPosts)
                /\ Watermark(stateFile) = rn.posts[1].id
                /\ rn.dispatched[Len(rn.dispatched)] = rn.posts[1].id

\* part_000 has dispatched two posts and saved the id of the newest one.
C17_Witness ==
    \E r \in Runs :
        /\ variant = "part_000"
        /\ run[r].outcome = "Persist"
        /\ Len(run[r].dispatched) >= 2
        /\ Watermark(stateFile) = run[r].posts[1].id

\* ---- C18
\* C18: nothing keeps a second run from starting while a first run is inside
\* main(), and two runs that loaded the same watermark and fetched the same
\* page select the same posts for delivery.
C18_OverlapNotGuarded ==
    /\ \A r \in Runs :
           (run[r].pc = "idle" /\ runs < Cardinality(Runs)) => ENABLED StartOverlap(r)
    /\ \A r1, r2 \in Runs :
           (/\ Delivering(run[r1]) \/ run[r1].outcome = "Persist"
            /\ Delivering(run[r2]) \/ run[r2].outcome = "Persist"
            /\ run[r1].loaded = run[r2].loaded
            /\ run[r1].posts = run[r2].posts) =>
               run[r1].newPosts = run[r2].newPosts

\* Two runs loaded the same state.json, and the webhook has accepted the
\* same post from both of them.
C18_Witness ==
    \E r1, r2 \in Runs :
        /\ r1 # r2
        /\ run[r1].file0 = run[r2].file0
        /\ run[r1].outcome = "Persist"
        /\ run[r2].outcome = "Persist"
        /\ \E id \in Ids : Acked(run[r1], id) /\ Acked(run[r2], id)

\* ---- C19
\* C19: a run has no outcome before it ends; a run that ended is done with
\* exactly one of the outcomes EarlyExit, Initialize, NoNew, Persist, or it
\* failed, and it failed only because a configuration value was missing,
\* the fetch failed or a dispatch failed.
C19_OutcomesAsStated ==
    \A r \in Runs :
        LET rn == run[r]
        IN  /\ rn.pc \notin Terminal => rn.outcome = "none"
            /\ rn.pc = "done" =>
                   rn.outcome \in {"EarlyExit", "Initialize", "NoNew", "Persist"}
            /\ rn.pc = "failed" =>
                   rn.outcome \in {"ConfigError", "FetchError", "DeliveryError"}

\* ---- C20
\* The run has fetched the page that the successful run before it fetched.
SamePageAfterSuccess(rn) == rn.prev.ok /\ SeqIds(rn.posts) = rn.prev.page

\* C20: a run that follows a run which ended in success (Initialize or
\* Persist) on a feed with posts, and that fetches the same page, issues no
\* webhook POST and does not write state.json.
C20_SuccessfulRunIdempotent ==
    \A r \in Runs :
        SamePageAfterSuccess(run[r]) =>
            /\ run[r].posted = <<>>
            /\ run[r].wrote = 0

====
